---------------------------- MODULE Spec2Model ----------------------------
(***************************************************************************)
(* A model of export.py, the Slack history exporter.                       *)
(*                                                                         *)
(* Strings that the program parses, searches or concatenates (ids, names,  *)
(* message texts, titles) are sequences of one-character strings, so that  *)
(* re.findall, str.replace, str.startswith and the f-strings are modelled  *)
(* by what they do.  Dicts are functions whose DOMAIN is the key set; a    *)
(* lookup of an absent key is the KeyError of the source.                  *)
(***************************************************************************)
EXTENDS Integers, Sequences, FiniteSets, TLC

VARIABLES
    pc,                 \* position of the run inside main() / the __main__ block
    exc,                \* the exception propagating out of main(), if any
    exitStatus,         \* the process exit status, Running until the process ends
    extra_users,        \* args.extra_users
    payload,            \* the PAYLOAD dict, mutated in place across requests
    users_data,         \* response body of users.list
    users,              \* the user table built by get_users
    conversations_data, \* response body of conversations.list
    conversations,      \* the conversation table built by get_conversations
    fired,              \* per raw conversation record, the branches whose body ran
    chosen_conversation,\* id picked by the operator
    messages_data,      \* the last conversations.history response (None before)
    messages,           \* the accumulator of fetch_and_get_messages / main
    requests,           \* every HTTP request issued, in order, with its outcome
    pages,              \* every conversations.history body received, in order
    fs,                 \* the export directory: path -> file content
    fs0,                \* the export directory as it was when the run started
    dir_exists,         \* whether the directory "export" exists
    export_path         \* the path computed by the export step (None before)

vars == <<pc, exc, exitStatus, extra_users, payload, users_data, users,
          conversations_data, conversations, fired, chosen_conversation,
          messages_data, messages, requests, pages, fs, fs0, dir_exists,
          export_path>>

---------------------------------------------------------------------------
(* Bounds of the model. *)

\* timestamps of the history messages are 1..MaxTs
MaxTs == 3
\* the model follows at most MaxRequests conversations.history requests
MaxRequests == 3
\* wall-clock seconds at the export step are 0..MaxSec
MaxSec == 1
\* member listings of the user-table specification hold at most MaxMembers records
MaxMembers == 2
\* conversation listings of the dispatch specification hold at most MaxChannels records
MaxChannels == 2
\* texts of the mention specification are built from at most MaxPieces pieces
MaxPieces == 3

---------------------------------------------------------------------------
(* Strings and dicts. *)

None == "None"
Running == -1

\* dict[key] = value, in place
Put(d, k, v) == [x \in DOMAIN d \cup {k} |-> IF x = k THEN v ELSE d[x]]
\* dict.update(other)
Update(d, other) ==
    [x \in DOMAIN d \cup DOMAIN other |-> IF x \in DOMAIN other THEN other[x] ELSE d[x]]
EmptyDict == [x \in {} |-> x]

Last(s) == s[Len(s)]

\* the characters the regex classes \w and \d accept, among those the model uses
WordChars == {"U", "1", "2", "9", "a", "b", "h", "i", "o", "l", "_"}

\* user ids
U1 == <<"U", "1">>
U2 == <<"U", "2">>
U9 == <<"U", "9">>

\* str.startswith(prefix)
startswith(s, prefix) ==
    Len(s) >= Len(prefix) /\ SubSeq(s, 1, Len(prefix)) = prefix

\* s[n:]
DropPrefix(s, n) == SubSeq(s, n + 1, Len(s))

---------------------------------------------------------------------------
(* get_users *)

\* one member record -> its entry; profile["display_name"] of a profile
\* without that key raises KeyError
UserEntry(member) ==
    IF "display_name" \notin DOMAIN member.profile
    THEN [exc |-> "KeyError", val |-> None]
    ELSE [exc |-> "none",
          val |-> [name |-> IF member.profile["display_name"] # <<>>
                            THEN member.profile["display_name"]
                            ELSE member.name,
                   real_name |-> member.profile["real_name"]]]

RECURSIVE get_users_from(_, _, _)
get_users_from(members, i, table) ==
    IF i > Len(members)
    THEN [exc |-> "none", val |-> table]
    ELSE LET e == UserEntry(members[i])
         IN IF e.exc # "none"
            THEN [exc |-> e.exc, val |-> None]
            ELSE get_users_from(members, i + 1, Put(table, members[i].id, e.val))

get_users(members) == get_users_from(members, 1, EmptyDict)

\* the statically configured users.EXTRA_USERS: one user who left the workspace
EXTRA_USERS ==
    [x \in {U9} |-> [name |-> <<"o", "l", "_">>, real_name |-> <<"O", "l">>]]

---------------------------------------------------------------------------
(* get_conversations *)

Branches == <<"im", "mpim", "channel", "else">>

\* the if / elif / elif / else chain: whether the body of branch b runs
Fires_independent_ifs(c, b) ==
    CASE b = "im" -> c.is_im
      [] b = "mpim" -> c.is_mpim
      [] b = "channel" -> c.is_channel \/ c.is_group
      [] b = "else" -> ~c.is_im /\ ~c.is_mpim /\ ~(c.is_channel \/ c.is_group)

Fires(c, b) ==
    CASE b = "im" -> c.is_im
      [] b = "mpim" -> ~c.is_im /\ c.is_mpim
      [] b = "channel" -> ~c.is_im /\ ~c.is_mpim /\ (c.is_channel \/ c.is_group)
      [] b = "else" -> ~c.is_im /\ ~c.is_mpim /\ ~(c.is_channel \/ c.is_group)

GroupPrefix ==
    <<"G", "r", "o", "u", "p", " ", "m", "e", "s", "s", "a", "g", "i", "n", "g",
      " ", "w", "i", "t", "h", ":", " ">>
PrefixLen == 22

\* f"{users[uid]['name']} (ID {uid})"
Who(tbl, uid) == tbl[uid].name \o <<" ", "(", "I", "D", " ">> \o uid \o <<")">>

\* the body of one branch: the dict that is merged into the entry, or the
\* exception the body raises
BranchBody(c, b, tbl) ==
    CASE b = "im" ->
           IF c.user \notin DOMAIN tbl
           THEN [exc |-> "KeyError", val |-> None]
           ELSE [exc |-> "none",
                 val |-> [title |-> <<"@">> \o tbl[c.user].name,
                          desc |-> <<"I", "M", " ", "w", "i", "t", "h", " ">>
                                     \o tbl[c.user].name,
                          who |-> Who(tbl, c.user)]]
      [] b = "mpim" ->
           LET purpose == IF startswith(c.purpose, GroupPrefix)
                          THEN DropPrefix(c.purpose, PrefixLen)
                          ELSE c.purpose
           IN IF c.creator \notin DOMAIN tbl
              THEN [exc |-> "KeyError", val |-> None]
              ELSE [exc |-> "none",
                    val |-> [title |-> purpose,
                             desc |-> <<"G", "r", "o", "u", "p", " ", "I", "M", ":", " ">>
                                        \o purpose,
                             who |-> Who(tbl, c.creator)]]
      [] b = "channel" ->
           IF c.creator \notin DOMAIN tbl
           THEN [exc |-> "KeyError", val |-> None]
           ELSE [exc |-> "none",
                 val |-> [title |-> <<"#">> \o c.name,
                          desc |-> <<"C", "h", "a", "n", "n", "e", "l", " ", "\"">>
                                     \o c.name \o <<"\"", " ", "(">>
                                     \o (IF c.is_private
                                         THEN <<"p", "r", "i", "v", "a", "t", "e">>
                                         ELSE <<"p", "u", "b", "l", "i", "c">>)
                                     \o <<")", " ">>,
                          who |-> Who(tbl, c.creator)]]
      [] b = "else" -> [exc |-> "IOError", val |-> None]

\* one record: run the bodies of the branches that fire, in source order
RECURSIVE Dispatch(_, _, _, _, _)
Dispatch(c, tbl, k, entry, ran) ==
    IF k > Len(Branches)
    THEN [exc |-> "none", val |-> entry, ran |-> ran]
    ELSE IF ~Fires(c, Branches[k])
         THEN Dispatch(c, tbl, k + 1, entry, ran)
         ELSE LET r == BranchBody(c, Branches[k], tbl)
              IN IF r.exc # "none"
                 THEN [exc |-> r.exc, val |-> None, ran |-> ran \cup {Branches[k]}]
                 ELSE Dispatch(c, tbl, k + 1, Update(entry, r.val),
                               ran \cup {Branches[k]})

\* the conversation table keeps the insertion order of its keys
EmptyTable == [keys |-> <<>>, val |-> EmptyDict]

TablePut(t, k, v) ==
    [keys |-> IF k \in DOMAIN t.val THEN t.keys ELSE Append(t.keys, k),
     val |-> Put(t.val, k, v)]

RECURSIVE get_conversations_from(_, _, _, _, _)
get_conversations_from(channels, tbl, i, table, log) ==
    IF i > Len(channels)
    THEN [exc |-> "none", val |-> table, fired |-> log]
    ELSE LET r == Dispatch(channels[i], tbl, 1, EmptyDict, {})
         IN IF r.exc # "none"
            THEN [exc |-> r.exc, val |-> None, fired |-> Append(log, r.ran)]
            ELSE get_conversations_from(channels, tbl, i + 1,
                                        TablePut(table, channels[i].id, r.val),
                                        Append(log, r.ran))

get_conversations(channels, tbl) ==
    get_conversations_from(channels, tbl, 1, EmptyTable, <<>>)

---------------------------------------------------------------------------
(* _collect_messages *)

\* dt.datetime.fromtimestamp(float(ts)).strftime("%Y-%m-%d %H:%M:%S"); the
\* model keeps the instant and marks the value as formatted
strftime(ts) == <<"d", ts>>

Author(msg, tbl) ==
    IF msg.user \in DOMAIN tbl
    THEN tbl[msg.user]
    ELSE [real_name |-> <<"U", "n", "k", "n", "o", "w", "n", " ", "-", " ", "I", "D", " ">>
                          \o msg.user,
          name |-> <<"U", "n", "k", "n", "o", "w", "n">>]

CollectOne(msg, tbl) ==
    [user |-> Author(msg, tbl).real_name \o <<" ", "(", "@">>
                \o Author(msg, tbl).name \o <<")">>,
     text |-> msg.text,
     ts |-> msg.ts,
     ts_readable |-> strftime(msg.ts)]

collect_messages(raw, tbl) == [i \in 1..Len(raw) |-> CollectOne(raw[i], tbl)]

---------------------------------------------------------------------------
(* replace_mentions *)

\* index after the longest run of word characters that starts at i
RECURSIVE WordRun(_, _)
WordRun(text, i) ==
    IF i <= Len(text) /\ text[i] \in WordChars THEN WordRun(text, i + 1) ELSE i

\* the index of the closing ">" of a match of <@((\w|\d)+)> starting at i, or 0
MatchEnd(text, i) ==
    IF i + 1 <= Len(text) /\ text[i] = "<" /\ text[i + 1] = "@"
    THEN LET j == WordRun(text, i + 2)
         IN IF j > i + 2 /\ j <= Len(text) /\ text[j] = ">" THEN j ELSE 0
    ELSE 0

\* re.findall: the non-overlapping matches, left to right
RECURSIVE findall(_, _)
findall(text, i) ==
    IF i > Len(text)
    THEN <<>>
    ELSE LET e == MatchEnd(text, i)
         IN IF e = 0
            THEN findall(text, i + 1)
            ELSE <<[repl |-> SubSeq(text, i, e), usr_id |-> SubSeq(text, i + 2, e - 1)]>>
                 \o findall(text, e + 1)

\* str.replace(old, new) for a non-empty old: every non-overlapping occurrence
RECURSIVE str_replace(_, _, _, _)
str_replace(text, old, new, i) ==
    IF i > Len(text)
    THEN <<>>
    ELSE IF i + Len(old) - 1 <= Len(text) /\ SubSeq(text, i, i + Len(old) - 1) = old
         THEN new \o str_replace(text, old, new, i + Len(old))
         ELSE <<text[i]>> \o str_replace(text, old, new, i + 1)

\* the loop over the matches of one message: each resolvable match assigns
\* message["text"] from `text`, the text read before the loop
RECURSIVE ReplaceLoop(_, _, _, _, _)
ReplaceLoop(text, m, k, tbl, cur) ==
    IF k > Len(m)
    THEN cur
    ELSE IF m[k].usr_id \in DOMAIN tbl
         THEN ReplaceLoop(text, m, k + 1, tbl,
                          str_replace(text, m[k].repl, <<"@">> \o tbl[m[k].usr_id].name, 1))
         ELSE ReplaceLoop(text, m, k + 1, tbl, cur)

ReplaceText(text, tbl) == ReplaceLoop(text, findall(text, 1), 1, tbl, text)

replace_mentions(msgs, tbl) ==
    [i \in 1..Len(msgs) |-> [msgs[i] EXCEPT !.text = ReplaceText(msgs[i].text, tbl)]]

---------------------------------------------------------------------------
(* retrieve_data, auth and the process exit *)

Outcomes == {"ok", "http_error", "api_error", "transport_error"}

\* retrieve_data: what a response does to the caller.  A transport failure is
\* raised by requests.get itself, a non-success status and ok = false by the
\* two checks; everything else returns the decoded body.
retrieve_data_swallows_api_error(outcome) ==
    IF outcome \in {"ok", "api_error"} THEN "return" ELSE "raise"

retrieve_data(outcome) == IF outcome = "ok" THEN "return" ELSE "raise"

NoExc == [type |-> "none", why |-> "none"]

\* the exit status the interpreter gives the process
ExitCode_interrupt_as_success(e) ==
    CASE e.type = "none" -> 0
      [] e.type = "KeyboardInterrupt" -> 0
      [] e.type = "SystemExit" -> 1
      [] OTHER -> 1

ExitCode(e) ==
    CASE e.type = "none" -> 0
      [] e.type = "KeyboardInterrupt" -> 130
      [] e.type = "SystemExit" -> 1
      [] OTHER -> 1

---------------------------------------------------------------------------
(* fetch_and_get_messages *)

\* payload["latest"] for the next request: the ts of the last message of the
\* page just fetched
NextCursor_first_message(page) == page.messages[1].ts

NextCursor(page) == Last(page.messages).ts

\* messages.extend(...)
Extend_overwrites(acc, new) == new

Extend(acc, new) == acc \o new

\* "if not messages_data['has_more']: break"
LoopBreaks_always(page) == TRUE

LoopBreaks(page) == ~page.has_more

---------------------------------------------------------------------------
(* the export step *)

\* f"{title}_" + now.strftime("%Y-%m-%d_%H-%M-%S") + ".json" under "export":
\* the sub-second part of now is dropped by the format
ExportPath(title, now) == [dir |-> "export", title |-> title, stamp |-> now.sec]

\* os.path.lexists
lexists_never(files, path) == FALSE

lexists(files, path) == path \in DOMAIN files

\* the file right after open(path, "w"), and after json.dump
EmptyFile == [written |-> FALSE, json |-> <<>>]
Dumped(msgs) == [written |-> TRUE, json |-> msgs]

---------------------------------------------------------------------------
(* The inputs of a run: what the remote API answers and what the operator *)
(* and the clock supply. *)

Token == <<"x", "o", "x", "p">>

Member(id, name, display, real) ==
    [id |-> id, name |-> name,
     profile |-> [k \in {"display_name", "real_name"} |->
                     IF k = "display_name" THEN display ELSE real]]

\* a member whose profile has no display_name key
BareMember(id, name, real) ==
    [id |-> id, name |-> name, profile |-> [k \in {"real_name"} |-> real]]

Bob == Member(U1, <<"b", "o", "b">>, <<>>, <<"B", "o", "b", " ", "S">>)
Al == Member(U2, <<"a", "l">>, <<"a", "l", "l", "i">>, <<"A", "l", " ", "T">>)
Bot == BareMember(U2, <<"b", "o", "t">>, <<"B", "o", "t">>)

\* the users.list bodies of the orchestration specification
MainMemberLists == {<<Bob, Al>>, <<Bob, Bot>>}

General == <<"g", "e", "n">>

Conv(id, im, mpim, channel, group, party) ==
    [id |-> id, is_im |-> im, is_mpim |-> mpim, is_channel |-> channel,
     is_group |-> group, is_private |-> group, user |-> party, creator |-> party,
     name |-> General,
     purpose |-> IF party = U1
                 THEN GroupPrefix \o <<"@", "a", "l">>
                 ELSE <<"t", "e", "a", "m">>]

\* the conversations.list bodies of the orchestration specification: a public
\* channel and an IM; a record of no known kind; a channel whose creator is
\* not a listed member; no conversation at all
MainChannelLists ==
    {<<Conv(<<"C", "1">>, FALSE, FALSE, TRUE, FALSE, U1),
       Conv(<<"D", "1">>, TRUE, FALSE, FALSE, FALSE, U2)>>,
     <<Conv(<<"X", "1">>, FALSE, FALSE, FALSE, FALSE, U1)>>,
     <<Conv(<<"C", "9">>, FALSE, FALSE, TRUE, FALSE, U9)>>,
     <<>>}

message_types == <<"public_channel", "private_channel", "mpim", "im">>

\* ", ".join([o for o, i in selection]): the options in the order pick
\* returns them, with the separator between them
RECURSIVE Join(_, _)
Join(sel, i) ==
    IF i > Len(sel)
    THEN <<>>
    ELSE (IF i > 1 THEN <<", ">> ELSE <<>>)
         \o <<message_types[sel[i]]>> \o Join(sel, i + 1)

\* the selections the operator makes in the model, as the indices pick
\* returns (pick enforces at least one)
Selections == {<<1, 2, 3, 4>>, <<4, 1>>}

\* the raw history message with timestamp t
RawMsg(t) ==
    [user |-> IF t % 2 = 1 THEN U1 ELSE U9,
     text |-> IF t % 2 = 1
              THEN <<"h", "i", " ", "<", "@", "U", "2", ">">>
              ELSE <<"<", "@", "U", "1", ">", "<", "@", "U", "9", ">">>,
     ts |-> t]

\* the API returns a page newest first: the timestamps hi, hi - 1, .., lo
\* (no message when hi < lo)
DescendingTs ==
    {[i \in 1..(hi - lo + 1) |-> hi + 1 - i] : hi \in 1..MaxTs, lo \in 1..MaxTs}

Pages ==
    {[messages |-> [i \in 1..Len(s) |-> RawMsg(s[i])], has_more |-> more] :
        s \in DescendingTs, more \in BOOLEAN}

\* the bodies conversations.history can answer a request with: no message is
\* newer than the request's latest.  (The API excludes latest itself; the
\* model lets it come back, which is the page that makes no progress.)
PagesFor(params) ==
    {page \in Pages :
        "latest" \in DOMAIN params =>
            \A i \in 1..Len(page.messages) : page.messages[i].ts <= params["latest"]}

\* dt.datetime.now(): seconds and the sub-second part
Times == [sec : 0..MaxSec, usec : {0, 5}]

\* the export directory before the run: absent, or holding an earlier export
EarlierExport ==
    Dumped(collect_messages(<<RawMsg(1)>>, get_users(<<Bob, Al>>).val))

InitialDirs ==
    {EmptyDict,
     [x \in {ExportPath(<<"#">> \o General, [sec |-> 0, usec |-> 0])} |-> EarlierExport]}

---------------------------------------------------------------------------
(* The run of the program. *)

InMain == {"auth", "users_list", "get_users", "pick_types", "conv_list",
           "get_conversations", "pick_conv", "history", "replace", "export",
           "open", "dump"}

\* what every run starts with, whatever it is given
Start(at) ==
    /\ pc = at
    /\ exc = NoExc
    /\ exitStatus = Running
    /\ payload = [k \in {"token"} |-> Token]
    /\ conversations = EmptyTable
    /\ fired = <<>>
    /\ chosen_conversation = <<>>
    /\ messages_data = <<>>
    /\ requests = <<>>
    /\ export_path = <<>>

Init ==
    /\ Start("auth")
    /\ users_data = <<>>
    /\ users = EmptyDict
    /\ conversations_data = <<>>
    /\ messages = <<>>
    /\ pages = <<>>
    /\ extra_users \in BOOLEAN
    /\ fs \in InitialDirs
    /\ fs0 = fs
    /\ dir_exists = (fs # EmptyDict)

\* an exception leaves main()
Raise(type, why) ==
    /\ pc' = "unwind"
    /\ exc' = [type |-> type, why |-> why]

Sent(endpoint, params, outcome) ==
    requests' = Append(requests,
                       [endpoint |-> endpoint, params |-> params, outcome |-> outcome])

\* auth(args.token) and "if not auth(...): sys.exit(1)"
Auth ==
    /\ pc = "auth"
    /\ \E o \in Outcomes :
          /\ Sent("auth.test", [k \in {"token"} |-> Token], o)
          /\ CASE o = "ok" -> pc' = "users_list" /\ exc' = exc
               [] o \in {"http_error", "api_error"} -> Raise("SystemExit", "auth_failed")
               [] OTHER -> Raise("IOError", o)
    /\ UNCHANGED <<exitStatus, extra_users, payload, users_data, users,
                   conversations_data, conversations, fired, chosen_conversation,
                   messages_data, messages, pages, fs, fs0, dir_exists, export_path>>

\* users_data = retrieve_data("users.list", PAYLOAD)
FetchUsers ==
    /\ pc = "users_list"
    /\ \E o \in Outcomes :
          /\ Sent("users.list", payload, o)
          /\ IF retrieve_data(o) = "return"
             THEN /\ \E members \in MainMemberLists : users_data' = members
                  /\ pc' = "get_users"
                  /\ exc' = exc
             ELSE /\ Raise("IOError", o)
                  /\ users_data' = users_data
    /\ UNCHANGED <<exitStatus, extra_users, payload, users,
                   conversations_data, conversations, fired, chosen_conversation,
                   messages_data, messages, pages, fs, fs0, dir_exists, export_path>>

\* users = get_users(users_data), then the optional users.update(EXTRA_USERS)
GetUsers ==
    /\ pc = "get_users"
    /\ LET r == get_users(users_data)
       IN IF r.exc # "none"
          THEN /\ Raise(r.exc, "get_users")
               /\ users' = users
          ELSE /\ users' = IF extra_users THEN Update(r.val, EXTRA_USERS) ELSE r.val
               /\ pc' = "pick_types"
               /\ exc' = exc
    /\ UNCHANGED <<exitStatus, extra_users, payload, users_data,
                   conversations_data, conversations, fired, chosen_conversation,
                   messages_data, messages, requests, pages, fs, fs0, dir_exists,
                   export_path>>

\* the multi-select prompt and PAYLOAD["types"] = ", ".join(...)
PickTypes ==
    /\ pc = "pick_types"
    /\ \E sel \in Selections : payload' = Put(payload, "types", Join(sel, 1))
    /\ pc' = "conv_list"
    /\ UNCHANGED <<exc, exitStatus, extra_users, users_data, users,
                   conversations_data, conversations, fired, chosen_conversation,
                   messages_data, messages, requests, pages, fs, fs0, dir_exists,
                   export_path>>

\* conversations_data = retrieve_data("conversations.list", PAYLOAD)
FetchConversations ==
    /\ pc = "conv_list"
    /\ \E o \in Outcomes :
          /\ Sent("conversations.list", payload, o)
          /\ IF retrieve_data(o) = "return"
             THEN /\ \E channels \in MainChannelLists : conversations_data' = channels
                  /\ pc' = "get_conversations"
                  /\ exc' = exc
             ELSE /\ Raise("IOError", o)
                  /\ conversations_data' = conversations_data
    /\ UNCHANGED <<exitStatus, extra_users, payload, users_data, users,
                   conversations, fired, chosen_conversation,
                   messages_data, messages, pages, fs, fs0, dir_exists, export_path>>

\* conversations = get_conversations(conversations_data, users)
GetConversations ==
    /\ pc = "get_conversations"
    /\ LET r == get_conversations(conversations_data, users)
       IN /\ fired' = r.fired
          /\ IF r.exc # "none"
             THEN /\ Raise(r.exc, IF r.exc = "IOError" THEN "unknown_kind" ELSE "lookup")
                  /\ conversations' = conversations
             ELSE /\ conversations' = r.val
                  /\ pc' = "pick_conv"
                  /\ exc' = exc
    /\ UNCHANGED <<exitStatus, extra_users, payload, users_data, users,
                   conversations_data, chosen_conversation,
                   messages_data, messages, requests, pages, fs, fs0, dir_exists,
                   export_path>>

\* the single-select prompt, list(conversations.keys())[index] and
\* PAYLOAD["channel"]; with no conversation to offer there is no valid index
PickConversation ==
    /\ pc = "pick_conv"
    /\ IF conversations.keys = <<>>
       THEN /\ Raise("ValueError", "no_options")
            /\ UNCHANGED <<chosen_conversation, payload>>
       ELSE /\ \E index \in 1..Len(conversations.keys) :
                  /\ chosen_conversation' = conversations.keys[index]
                  /\ payload' = Put(payload, "channel", conversations.keys[index])
            /\ pc' = "history"
            /\ exc' = exc
    /\ UNCHANGED <<exitStatus, extra_users, users_data, users,
                   conversations_data, conversations, fired,
                   messages_data, messages, requests, pages, fs, fs0, dir_exists,
                   export_path>>

HistoryRequests == SelectSeq(requests, LAMBDA r : r.endpoint = "conversations.history")

\* one iteration of the loop of fetch_and_get_messages
FetchPage ==
    /\ pc = "history"
    /\ Len(HistoryRequests) < MaxRequests
    /\ IF messages_data # <<>> /\ messages_data[1].messages = <<>>
       THEN \* messages_data["messages"][-1] of an empty list
            /\ Raise("IndexError", "empty_page")
            /\ UNCHANGED <<payload, requests, messages_data, pages, messages>>
       ELSE LET p == IF messages_data = <<>>
                     THEN payload
                     ELSE Put(payload, "latest", NextCursor(messages_data[1]))
            IN /\ payload' = p
               /\ \E o \in Outcomes :
                     /\ Sent("conversations.history", p, o)
                     /\ IF retrieve_data(o) = "return"
                        THEN \E page \in PagesFor(p) :
                                /\ messages_data' = <<page>>
                                /\ pages' = Append(pages, page)
                                /\ messages' = Extend(messages,
                                                      collect_messages(page.messages, users))
                                /\ pc' = IF LoopBreaks(page) THEN "replace" ELSE "history"
                                /\ exc' = exc
                        ELSE /\ Raise("IOError", o)
                             /\ UNCHANGED <<messages_data, pages, messages>>
    /\ UNCHANGED <<exitStatus, extra_users, users_data, users,
                   conversations_data, conversations, fired, chosen_conversation,
                   fs, fs0, dir_exists, export_path>>

\* replace_mentions(messages, users)
ReplaceMentions ==
    /\ pc = "replace"
    /\ messages' = replace_mentions(messages, users)
    /\ pc' = "export"
    /\ UNCHANGED <<exc, exitStatus, extra_users, payload, users_data, users,
                   conversations_data, conversations, fired, chosen_conversation,
                   messages_data, requests, pages, fs, fs0, dir_exists, export_path>>

\* the export path, the lexists check with sys.exit(1), and os.makedirs
Export ==
    /\ pc = "export"
    /\ \E now \in Times :
          LET path == ExportPath(conversations.val[chosen_conversation].title, now)
          IN /\ export_path' = <<path>>
             /\ IF lexists(fs, path)
                THEN /\ Raise("SystemExit", "collision")
                     /\ dir_exists' = dir_exists
                ELSE /\ dir_exists' = TRUE
                     /\ pc' = "open"
                     /\ exc' = exc
    /\ UNCHANGED <<exitStatus, extra_users, payload, users_data, users,
                   conversations_data, conversations, fired, chosen_conversation,
                   messages_data, messages, requests, pages, fs, fs0>>

\* open(export_path, "w") creates or truncates the file
OpenFile ==
    /\ pc = "open"
    /\ fs' = Put(fs, export_path[1], EmptyFile)
    /\ pc' = "dump"
    /\ UNCHANGED <<exc, exitStatus, extra_users, payload, users_data, users,
                   conversations_data, conversations, fired, chosen_conversation,
                   messages_data, messages, requests, pages, fs0, dir_exists,
                   export_path>>

\* json.dump(messages, f), the end of the with block and the return of main()
Dump ==
    /\ pc = "dump"
    /\ fs' = Put(fs, export_path[1], Dumped(messages))
    /\ pc' = "returned"
    /\ UNCHANGED <<exc, exitStatus, extra_users, payload, users_data, users,
                   conversations_data, conversations, fired, chosen_conversation,
                   messages_data, messages, requests, pages, fs0, dir_exists,
                   export_path>>

\* the operator presses Ctrl-C while main() runs
Interrupt ==
    /\ pc \in InMain
    /\ Raise("KeyboardInterrupt", pc)
    /\ UNCHANGED <<exitStatus, extra_users, payload, users_data, users,
                   conversations_data, conversations, fired, chosen_conversation,
                   messages_data, messages, requests, pages, fs, fs0, dir_exists,
                   export_path>>

\* the __main__ block: except KeyboardInterrupt -> sys.exit(130); SystemExit
\* and every other exception end the process through the interpreter
TopLevel ==
    /\ pc \in {"unwind", "returned"}
    /\ exitStatus' = ExitCode(exc)
    /\ pc' = "exited"
    /\ UNCHANGED <<exc, extra_users, payload, users_data, users,
                   conversations_data, conversations, fired, chosen_conversation,
                   messages_data, messages, requests, pages, fs, fs0, dir_exists,
                   export_path>>

Next ==
    \/ Auth
    \/ FetchUsers
    \/ GetUsers
    \/ PickTypes
    \/ FetchConversations
    \/ GetConversations
    \/ PickConversation
    \/ FetchPage
    \/ ReplaceMentions
    \/ Export
    \/ OpenFile
    \/ Dump
    \/ Interrupt
    \/ TopLevel

Spec == Init /\ [][Next]_vars

---------------------------------------------------------------------------
(* get_users alone, over every member listing of up to MaxMembers records *)
(* with distinct ids. *)

MemberIds == {U1, U2, U9}
Displays == {<<>>, <<"a", "l", "l", "i">>}

MemberRecords ==
    {Member(id, <<"b", "o", "b">>, d, <<"B", "o", "b", " ", "S">>) :
        id \in MemberIds, d \in Displays}
    \cup {BareMember(id, <<"b", "o", "t">>, <<"B", "o", "t">>) : id \in MemberIds}

MemberLists ==
    {l \in UNION {[1..n -> MemberRecords] : n \in 0..MaxMembers} :
        \A i, j \in 1..Len(l) : i # j => l[i].id # l[j].id}

InitUsers ==
    /\ Start("get_users")
    /\ users_data \in MemberLists
    /\ users = EmptyDict
    /\ conversations_data = <<>>
    /\ messages = <<>>
    /\ pages = <<>>
    /\ extra_users = FALSE
    /\ fs = EmptyDict
    /\ fs0 = fs
    /\ dir_exists = FALSE

SpecUsers == InitUsers /\ [][GetUsers]_vars

---------------------------------------------------------------------------
(* get_conversations alone, over every combination of the four kind flags. *)

Digits == <<"1", "2", "3", "4", "5">>

FlagRecords ==
    {Conv(<<"C">>, im, mpim, channel, group, party) :
        im \in BOOLEAN, mpim \in BOOLEAN, channel \in BOOLEAN, group \in BOOLEAN,
        party \in {U1, U9}}

\* conversation ids are unique within a listing: the record at place i is Ci
ChannelLists ==
    {[i \in 1..Len(l) |-> [l[i] EXCEPT !.id = <<"C", Digits[i]>>]] :
        l \in UNION {[1..n -> FlagRecords] : n \in 0..MaxChannels}}

InitConversations ==
    /\ Start("get_conversations")
    /\ users_data = <<Bob, Al>>
    /\ users = get_users(users_data).val
    /\ conversations_data \in ChannelLists
    /\ messages = <<>>
    /\ pages = <<>>
    /\ extra_users = FALSE
    /\ fs = EmptyDict
    /\ fs0 = fs
    /\ dir_exists = FALSE

SpecConversations == InitConversations /\ [][GetConversations]_vars

---------------------------------------------------------------------------
(* replace_mentions alone, over texts built from up to MaxPieces pieces. *)

Pieces ==
    {<<"<", "@", "U", "1", ">">>, <<"<", "@", "U", "2", ">">>,
     <<"<", "@", "U", "9", ">">>, <<"h", "i", " ">>, <<"<", "@">>, <<"U", "1">>,
     <<">">>}

RECURSIVE Concat(_, _)
Concat(ss, i) == IF i > Len(ss) THEN <<>> ELSE ss[i] \o Concat(ss, i + 1)

Texts == {Concat(ss, 1) : ss \in UNION {[1..n -> Pieces] : n \in 0..MaxPieces}}

InitMentions ==
    /\ Start("replace")
    /\ users_data = <<Bob, Al>>
    /\ users = get_users(users_data).val
    /\ conversations_data = <<>>
    /\ \E text \in Texts :
          pages = <<[messages |-> <<[user |-> U1, text |-> text, ts |-> 1]>>,
                     has_more |-> FALSE]>>
    /\ messages = collect_messages(pages[1].messages, users)
    /\ extra_users = FALSE
    /\ fs = EmptyDict
    /\ fs0 = fs
    /\ dir_exists = FALSE

SpecMentions == InitMentions /\ [][ReplaceMentions]_vars

---------------------------------------------------------------------------
(* What the claims speak of. *)

\* the raw messages of all pages received, in page order
RECURSIVE RawOf(_, _)
RawOf(ps, i) == IF i > Len(ps) THEN <<>> ELSE ps[i].messages \o RawOf(ps, i + 1)

RECURSIVE SumLens(_, _)
SumLens(ps, i) == IF i > Len(ps) THEN 0 ELSE Len(ps[i].messages) + SumLens(ps, i + 1)

\* the timestamp of the oldest message of a non-empty page
OldestTs(page) ==
    CHOOSE t \in {page.messages[i].ts : i \in 1..Len(page.messages)} :
        \A j \in 1..Len(page.messages) : t <= page.messages[j].ts

TsOf(msgs) == [i \in 1..Len(msgs) |-> msgs[i].ts]

Exited == pc = "exited"
Stopped == pc \in {"unwind", "exited"}
AfterFetch == pc \in {"replace", "export", "open", "dump", "returned"}

\* every page has messages and reaches strictly further back than the one before
StrictlyOlder(ps) ==
    /\ \A i \in 1..Len(ps) : ps[i].messages # <<>>
    /\ \A i \in 1..(Len(ps) - 1) : OldestTs(ps[i + 1]) < OldestTs(ps[i])

\* C1: over pages that each reach strictly further back, the paginator goes on
\* exactly while has_more is true, stops after the first page with has_more
\* false without a further request, never fails of its own, and the list it
\* returns is the concatenation of the pages' messages, each page in its own
\* order: as long as the sum of the page lengths, nothing re-sorted, doubled
\* or dropped.
C1_PaginationAccumulatesAll ==
    StrictlyOlder(pages) =>
        /\ exc.type # "IndexError"
        /\ \A i \in 1..(Len(pages) - 1) : pages[i].has_more
        /\ pc = "history" =>
              /\ pages # <<>> => Last(pages).has_more
              /\ messages = collect_messages(RawOf(pages, 1), users)
        /\ pc = "replace" =>
              /\ ~Last(pages).has_more
              /\ Len(HistoryRequests) = Len(pages)
              /\ messages = collect_messages(RawOf(pages, 1), users)
        /\ (AfterFetch \/ (Stopped /\ export_path # <<>>)) =>
              /\ ~Last(pages).has_more
              /\ Len(HistoryRequests) = Len(pages)
              /\ Len(messages) = SumLens(pages, 1)
              /\ TsOf(messages) = TsOf(RawOf(pages, 1))

C1_Witness ==
    /\ pc = "replace"
    /\ Len(pages) = 2
    /\ StrictlyOlder(pages)
    /\ Len(pages[1].messages) = 2
    /\ Len(messages) = 3

\* the text with each match of the mention pattern rewritten where it stands
RECURSIVE Rewritten(_, _, _)
Rewritten(text, tbl, i) ==
    IF i > Len(text)
    THEN <<>>
    ELSE LET e == MatchEnd(text, i)
         IN IF e = 0
            THEN <<text[i]>> \o Rewritten(text, tbl, i + 1)
            ELSE (IF SubSeq(text, i + 2, e - 1) \in DOMAIN tbl
                  THEN <<"@">> \o tbl[SubSeq(text, i + 2, e - 1)].name
                  ELSE SubSeq(text, i, e))
                 \o Rewritten(text, tbl, e + 1)

\* C2: after replace_mentions every <@ID> whose ID is in the user table reads
\* @<shortname>, every other <@ID> and the rest of the text are unchanged.
C2_EveryResolvableMentionReplaced ==
    pc = "export" =>
        \A i \in 1..Len(messages) :
            messages[i].text = Rewritten(RawOf(pages, 1)[i].text, users, 1)

\* C3: a file that exists at the computed export path is never replaced: the
\* run stops with the collision exit (status 1), and every file that was in
\* the export directory before the run keeps its content.
C3_ExportNeverOverwrites ==
    /\ \A p \in DOMAIN fs0 : p \in DOMAIN fs /\ fs[p] = fs0[p]
    /\ (export_path # <<>> /\ export_path[1] \in DOMAIN fs0) =>
          /\ Stopped
          /\ exc = [type |-> "SystemExit", why |-> "collision"]
          /\ fs = fs0
          /\ Exited => exitStatus = 1

C3_Witness ==
    /\ Exited
    /\ exitStatus = 1
    /\ exc.why = "collision"
    /\ export_path[1] \in DOMAIN fs0
    /\ fs[export_path[1]] = EarlierExport

\* page i made no progress: it is empty, or its oldest timestamp repeats the
\* oldest timestamp of the page before
ZeroProgress(ps, i) ==
    \/ ps[i].messages = <<>>
    \/ /\ i > 1
       /\ ps[i - 1].messages # <<>>
       /\ OldestTs(ps[i]) = OldestTs(ps[i - 1])

\* C4: after a page that made no progress while has_more is true, the
\* paginator issues no further request (it ends with an error instead).
C4_ZeroProgressGuarded ==
    \A i \in 1..Len(pages) :
        (pages[i].has_more /\ ZeroProgress(pages, i)) => Len(HistoryRequests) <= i

KindFlags(c) == <<c.is_im, c.is_mpim, c.is_channel, c.is_group>>

\* C5: for every raw record that get_conversations reaches, exactly one branch
\* body runs, and it is one whose flag the record sets; a record with all four
\* flags false raises the unknown-kind error, and then no table is returned.
C5_ExactlyOneBranch ==
    pc # "get_conversations" =>
        /\ \A i \in 1..Len(fired) :
              LET c == conversations_data[i]
              IN /\ Cardinality(fired[i]) = 1
                 /\ "im" \in fired[i] => c.is_im
                 /\ "mpim" \in fired[i] => c.is_mpim
                 /\ "channel" \in fired[i] => (c.is_channel \/ c.is_group)
                 /\ "else" \in fired[i] =>
                       KindFlags(c) = <<FALSE, FALSE, FALSE, FALSE>>
                 /\ KindFlags(c) = <<FALSE, FALSE, FALSE, FALSE>> =>
                       /\ pc = "unwind"
                       /\ exc = [type |-> "IOError", why |-> "unknown_kind"]
                       /\ conversations = EmptyTable
                       /\ i = Len(fired)
        /\ pc = "pick_conv" =>
              /\ Len(fired) = Len(conversations_data)
              /\ Len(conversations.keys) = Len(conversations_data)

C5_Witness ==
    /\ pc = "unwind"
    /\ exc.why = "unknown_kind"
    /\ Len(fired) = 2
    /\ fired[1] = {"im"}
    /\ conversations_data[1].is_mpim
    /\ conversations_data[1].is_channel

\* the run wrote its export file completely
FileWritten ==
    /\ export_path # <<>>
    /\ export_path[1] \notin DOMAIN fs0
    /\ export_path[1] \in DOMAIN fs
    /\ fs[export_path[1]] = Dumped(messages)

C7_NoRetryAbortOnFirstError ==
    \A i \in 1..Len(requests) :
        requests[i].outcome # "ok" =>
            /\ i = Len(requests)
            /\ Stopped
            /\ exc.type \in {"IOError", "SystemExit"}
            /\ Exited => exitStatus = 1

C7_Witness ==
    /\ Exited
    /\ exitStatus = 1
    /\ Len(HistoryRequests) = 2
    /\ Last(requests).outcome = "api_error"
    /\ Last(requests).endpoint = "conversations.history"

\* what holds of the history requests whatever the pages are
CursorSafety ==
    LET h == HistoryRequests
    IN /\ Len(pages) <= Len(h)
       /\ Len(h) <= Len(pages) + 1
       /\ h # <<>> => "latest" \notin DOMAIN h[1].params
       /\ \A i \in 2..Len(h) :
             /\ pages[i - 1].has_more
             /\ pages[i - 1].messages # <<>>
             /\ "latest" \in DOMAIN h[i].params
             /\ h[i].params["latest"] = OldestTs(pages[i - 1])
       /\ \A i \in 1..Len(h) :
             /\ h[i].params["token"] = Token
             /\ h[i].params["channel"] = chosen_conversation
       /\ AfterFetch => ~Last(pages).has_more

\* C9 as amended: the first history request has no latest; every later one
\* follows a non-empty page with has_more true and carries the timestamp of
\* that page's oldest message; token and channel never change; the paginator
\* returns only after a page with has_more false; and the one case in which
\* has_more is true and the paginator sends nothing is the empty page, where
\* it raises IndexError.
C9_CursorProtocol ==
    /\ CursorSafety
    /\ exc.type = "IndexError" =>
          /\ Last(pages).has_more
          /\ Last(pages).messages = <<>>
          /\ Len(HistoryRequests) = Len(pages)

C9_Witness ==
    /\ pc = "replace"
    /\ Len(HistoryRequests) = 3
    /\ Len(pages[1].messages) = 2
    /\ HistoryRequests[2].params["latest"] = 2
    /\ HistoryRequests[3].params["latest"] = 1

\* C9 as stated: a request follows a page if and only if has_more is true, so
\* the paginator itself never stops after a page with has_more true.
C9_RequestIffHasMore ==
    /\ CursorSafety
    /\ exc.type # "IndexError"

\* C10: the export directory changes only in the write step, which comes after
\* the page with has_more false and after replace_mentions ran over the whole
\* list; the run adds at most one file and alters none; a run that ends in a
\* failure, a collision or an interrupt before the write step changes nothing.
C10_NoPartialExport ==
    /\ \A p \in DOMAIN fs0 : p \in DOMAIN fs /\ fs[p] = fs0[p]
    /\ fs # fs0 =>
          /\ pc \in {"dump", "returned", "unwind", "exited"}
          /\ export_path # <<>>
          /\ DOMAIN fs = DOMAIN fs0 \cup {export_path[1]}
          /\ fs[export_path[1]] \in {EmptyFile, Dumped(messages)}
          /\ pages # <<>>
          /\ ~Last(pages).has_more
          /\ \A i \in 1..(Len(pages) - 1) : pages[i].has_more
          /\ messages = replace_mentions(collect_messages(RawOf(pages, 1), users), users)
    /\ (Stopped /\ exc.type # "none" /\ exc.why # "dump") => fs = fs0

C10_Witness ==
    /\ Exited
    /\ exitStatus = 0
    /\ Len(pages) = 2
    /\ fs0 # EmptyDict
    /\ Cardinality(DOMAIN fs) = 2
    /\ fs[export_path[1]] = Dumped(messages)

\* the name get_users gives a member: the display name when the profile has a
\* non-empty one, else the account name
ShortName(member) ==
    IF "display_name" \in DOMAIN member.profile /\ member.profile["display_name"] # <<>>
    THEN member.profile["display_name"]
    ELSE member.name

\* C8: get_users returns a table that has every member id of the listing as a
\* key, with the member's short name and its real_name copied verbatim.
C8_ShortNameResolved ==
    pc # "get_users" =>
        /\ exc = NoExc
        /\ \A i \in 1..Len(users_data) :
              /\ users_data[i].id \in DOMAIN users
              /\ users[users_data[i].id].name = ShortName(users_data[i])
              /\ users[users_data[i].id].real_name = users_data[i].profile["real_name"]

=============================================================================
